---- MODULE Spec2Model ----
(***************************************************************************)
(* Model of haystack_meilisearch.MeiliSearchBackend: the haystack search   *)
(* backend that forwards clear / remove / update / search to a Meilisearch *)
(* store.  Strings that the backend rewrites or parses (content types,     *)
(* identifiers, document ids, index names) are sequences of one-character  *)
(* strings, so that str.replace and str.split are computed, not assumed.   *)
(* Strings the backend only passes through (query, URL, key, field names)  *)
(* are plain strings.                                                      *)
(***************************************************************************)
EXTENDS Integers, Sequences, FiniteSets, TLC

VARIABLES backend, store, calls, last

vars == <<backend, store, calls, last>>

(* ------------------------------ bounds --------------------------------- *)

\* longest iterable handed to update
MaxDocs == 3
\* most hits in one store response
MaxHits == 2
\* chunk size of the batching policy the specification describes
ChunkSize == 2

(* ------------------------- strings as sequences ------------------------ *)

\* str.replace(old, new) for one-character old and new
RECURSIVE replace(_, _, _)
replace(s, old, new) ==
    IF s = <<>> THEN <<>>
    ELSE <<(IF Head(s) = old THEN new ELSE Head(s))>> \o replace(Tail(s), old, new)

\* str.split(sep) with no maxsplit: every occurrence of sep is a boundary
RECURSIVE split(_, _)
split(s, sep) ==
    IF \A i \in 1..Len(s) : s[i] # sep THEN <<s>>
    ELSE LET i == CHOOSE k \in 1..Len(s) :
                      s[k] = sep /\ \A j \in 1..(k - 1) : s[j] # sep
         IN  <<SubSeq(s, 1, i - 1)>> \o split(SubSeq(s, i + 1, Len(s)), sep)

(* ------------------------- framework collaborators --------------------- *)

Model(app, name) == [app_label |-> app, model_name |-> name]

ModelAB == Model(<<"a">>, <<"b">>)
ModelAC == Model(<<"a">>, <<"c">>)
ModelCD == Model(<<"c">>, <<"d">>)

\* the models registered with the framework
get_indexed_models == {ModelAB, ModelAC, ModelCD}

\* haystack.utils.get_model_ct: "app_label.model_name"
get_model_ct(model) == model.app_label \o <<".">> \o model.model_name

\* An object to index: its model, its primary key, and the identifier that
\* haystack's get_identifier yields for it ("app.model.pk" by default; a
\* project may configure another identifier method).
Obj(model, pk, ident) == [model |-> model, pk |-> pk, ident |-> ident]

DefaultObj(model, pk) == Obj(model, pk, get_model_ct(model) \o <<".">> \o pk)

ObjList ==
    << DefaultObj(ModelAB, <<"1">>),
       DefaultObj(ModelAB, <<"2">>),
       Obj(ModelAB, <<"3">>, <<"m">>),
       DefaultObj(ModelAC, <<"1", "_", "2">>) >>

Objs == {ObjList[i] : i \in DOMAIN ObjList}

ObjsOf(model) == {o \in Objs : o.model = model}

get_identifier(obj) == obj.ident

\* SearchIndex.full_prepare: the prepared document, whose id is the
\* identifier of the object
full_prepare(obj) ==
    [id |-> get_identifier(obj),
     django_ct |-> get_model_ct(obj.model),
     django_id |-> obj.pk,
     prepared_id |-> get_identifier(obj)]

\* SearchIndex.fields of the index class of a model
IndexFields(model) == IF model = ModelAB THEN {"text", "title"} ELSE {"text"}

(* ------------------------------ the backend ---------------------------- *)

_index_name(model) == replace(get_model_ct(model), ".", "_")

IndexNames == {_index_name(m) : m \in get_indexed_models}

NoClient == [url |-> "", key |-> "", made |-> FALSE]
Client(url, key) == [url |-> url, key |-> key, made |-> TRUE]

OptionNames == {"URL", "KEY"}
OptionValues == {"u1", "u2", "k1"}
ConnectionOptions ==
    {o \in UNION {[D -> OptionValues] : D \in SUBSET OptionNames} :
        /\ "URL" \in DOMAIN o => o["URL"] \in {"u1", "u2"}
        /\ "KEY" \in DOMAIN o => o["KEY"] = "k1"}

NoOptions == [d \in {} |-> "u1"]

(* ------------------------------ the store ------------------------------ *)

NoIndex == [exists |-> FALSE, docs |-> {}, attrs |-> {}]

\* Index.delete()
index_delete(st, name) == [st EXCEPT ![name] = NoIndex]

RECURSIVE upsert(_, _)
upsert(docs, documents) ==
    IF documents = <<>> THEN docs
    ELSE upsert({d \in docs : d.id # Head(documents).id} \cup {Head(documents)},
                Tail(documents))

\* Index.add_documents(documents, primary_key="id"): creates the index when
\* it is missing, and replaces the stored document with the same id
add_documents(st, name, documents) ==
    [st EXCEPT ![name] = [exists |-> TRUE,
                          docs |-> upsert(st[name].docs, documents),
                          attrs |-> st[name].attrs]]

\* Index.update_searchable_attributes(attrs)
update_searchable_attributes(st, name, attrs) ==
    [st EXCEPT ![name] = [@ EXCEPT !.attrs = attrs]]

\* a delete that keeps the named document and drops the others
delete_document_others(st, name, id) ==
    [st EXCEPT ![name] = [@ EXCEPT !.docs = {d \in @ : d.id = id}]]

\* Index.delete_document(id): removes the document with that id, if any
delete_document(st, name, id) ==
    [st EXCEPT ![name] = [@ EXCEPT !.docs = {d \in @ : d.id # id}]]

\* Client.get_indexes()["results"]
get_indexes(st) == {n \in IndexNames : st[n].exists}

(* ------------------------------ call log ------------------------------- *)

NoCall ==
    [fn |-> "", index |-> <<>>, ids |-> <<>>, primary_key |-> "",
     query |-> "", subs |-> <<>>, attrs |-> {}]

Call(fn, index) == [NoCall EXCEPT !.fn = fn, !.index = index]

NoLast ==
    [op |-> "none", outcome |-> "ok", found |-> FALSE, opts |-> NoOptions, mlist |-> <<>>,
     mset |-> {}, mafter |-> {}, q |-> "", objs |-> <<>>, response |-> <<>>,
     results |-> <<>>, hits |-> 0]

NoBackend == [url |-> "", key |-> "", client |-> NoClient]

Init ==
    /\ backend = NoBackend
    /\ store = [n \in IndexNames |-> NoIndex]
    /\ calls = <<>>
    /\ last = NoLast

Ready == backend.client.made

(* ------------------------------ __init__ ------------------------------- *)

\* a constructor that does not check KEY
Construct_without_key_check(opts) ==
    /\ ~Ready
    /\ calls' = <<>>
    /\ UNCHANGED store
    /\ IF "URL" \notin DOMAIN opts
       THEN /\ backend' = NoBackend
            /\ last' = [NoLast EXCEPT !.op = "init", !.opts = opts,
                                      !.outcome = "URL not set"]
       ELSE LET key == IF "KEY" \in DOMAIN opts THEN opts["KEY"] ELSE ""
            IN  /\ backend' = [url |-> opts["URL"], key |-> key,
                               client |-> Client(opts["URL"], key)]
                /\ last' = [NoLast EXCEPT !.op = "init", !.opts = opts]

\* A failed construction raises out of __init__; what the caller keeps is
\* the backend without a client, and it may construct again.
Construct(opts) ==
    /\ ~Ready
    /\ calls' = <<>>
    /\ UNCHANGED store
    /\ IF "URL" \notin DOMAIN opts
       THEN /\ backend' = NoBackend
            /\ last' = [NoLast EXCEPT !.op = "init", !.opts = opts,
                                      !.outcome = "URL not set"]
       ELSE IF "KEY" \notin DOMAIN opts
       THEN /\ backend' = [NoBackend EXCEPT !.url = opts["URL"]]
            /\ last' = [NoLast EXCEPT !.op = "init", !.opts = opts,
                                      !.outcome = "KEY not set"]
       ELSE /\ backend' = [url |-> opts["URL"], key |-> opts["KEY"],
                           client |-> Client(opts["URL"], opts["KEY"])]
            /\ last' = [NoLast EXCEPT !.op = "init", !.opts = opts]

(* -------------------------------- clear -------------------------------- *)

\* the sequences of distinct elements of S
Lists(S) ==
    {l \in UNION {[1..n -> S] : n \in 0..Cardinality(S)} :
        \A i, j \in 1..Len(l) : i # j => l[i] # l[j]}

\* a set of strings as a list, in the order its holder enumerates it
RECURSIVE Enumerate(_)
Enumerate(S) ==
    IF S = {} THEN <<>>
    ELSE LET n == CHOOSE x \in S : TRUE
         IN  <<n>> \o Enumerate(S \ {n})

\* clear that ignores its models argument
clear_targets_ignoring_models(indexes, models) == indexes

\* the index names clear deletes, in order: every enumerated index when
\* models is None or empty, the index of each listed model otherwise
clear_targets(indexes, models) ==
    IF models = <<>> THEN indexes
    ELSE [i \in 1..Len(models) |-> _index_name(models[i])]

RECURSIVE delete_all(_, _)
delete_all(st, names) ==
    IF names = <<>> THEN st
    ELSE delete_all(index_delete(st, Head(names)), Tail(names))

Clear(models) ==
    /\ Ready
    /\ LET indexes == Enumerate(get_indexes(store))
           targets == clear_targets(indexes, models)
       IN  /\ store' = delete_all(store, targets)
           /\ calls' = <<Call("get_indexes", <<>>)>> \o
                       [i \in 1..Len(targets) |-> Call("delete", targets[i])]
    /\ last' = [NoLast EXCEPT !.op = "clear", !.mlist = models]
    /\ UNCHANGED backend

(* -------------------------------- remove ------------------------------- *)

Remove(obj) ==
    /\ Ready
    /\ LET identifier == get_identifier(obj)
           index_name == _index_name(obj.model)
       IN  /\ store' = delete_document(store, index_name, identifier)
           /\ calls' = <<[Call("delete_document", index_name)
                            EXCEPT !.ids = <<identifier>>]>>
    /\ last' = [NoLast EXCEPT
                   !.op = "remove", !.objs = <<obj>>,
                   !.found = \E d \in store[_index_name(obj.model)].docs :
                                 d.id = get_identifier(obj)]
    /\ UNCHANGED backend

(* -------------------------------- update ------------------------------- *)

\* update that stores the prepared id as it is
document_id_unchanged(id) == id

\* document["id"].replace(".", "_")
document_id(id) == replace(id, ".", "_")

prepare_documents(iterable) ==
    [i \in 1..Len(iterable) |->
        [full_prepare(iterable[i]) EXCEPT !.id = document_id(@)]]

\* one add_documents call per document
upsert_calls_per_document(index_name, documents) ==
    [i \in 1..Len(documents) |->
        [Call("add_documents", index_name)
           EXCEPT !.ids = <<documents[i].id>>, !.primary_key = "id"]]

\* the add_documents calls update issues for the prepared documents
upsert_calls(index_name, documents) ==
    <<[Call("add_documents", index_name)
         EXCEPT !.ids = [i \in 1..Len(documents) |-> documents[i].id],
                !.primary_key = "id"]>>

Iterables(model) ==
    UNION {[1..n -> ObjsOf(model)] : n \in 0..MaxDocs}

Update(model, iterable) ==
    /\ Ready
    /\ LET index_name == replace(get_model_ct(model), ".", "_")
           documents == prepare_documents(iterable)
           fields == IndexFields(model)
       IN  /\ store' = update_searchable_attributes(
                           add_documents(store, index_name, documents),
                           index_name, fields)
           /\ calls' = upsert_calls(index_name, documents) \o
                       <<[Call("update_searchable_attributes", index_name)
                            EXCEPT !.attrs = fields]>>
    /\ last' = [NoLast EXCEPT !.op = "update", !.mlist = <<model>>,
                              !.objs = iterable]
    /\ UNCHANGED backend

(* -------------------------------- search ------------------------------- *)

Queries == {"foo", "*"}

\* the single-index branch taken for up to two models
single_index_up_to_two(models) == Cardinality(models) <= 2

\* len(models) == 1
single_index(models) == Cardinality(models) = 1

\* the store's ranking of the documents it may hold
Ranking == prepare_documents(ObjList)

\* what a store response may hold: at most MaxHits documents of the queried
\* indexes, in ranking order
Responses(names) ==
    LET held == UNION {store[n].docs : n \in names}
    IN  {SelectSeq(Ranking, LAMBDA d : d \in S) :
            S \in {T \in SUBSET held : Cardinality(T) <= MaxHits}}

SearchResult(app_label, model_name, pk) ==
    [app_label |-> app_label, model_name |-> model_name, pk |-> pk, score |-> 0]

\* app_label, model_name, pk = match["id"].split("_")
unpacks(id) == Len(split(id, "_")) = 3

decode(id) ==
    LET parts == split(id, "_")
    IN  SearchResult(parts[1], parts[2], parts[3])

\* the loop over raw_results["hits"]: a ValueError of the unpacking leaves
\* search with no return value
collect(hits) ==
    IF \A i \in 1..Len(hits) : unpacks(hits[i].id)
    THEN [NoLast EXCEPT !.op = "search", !.response = hits,
                        !.results = [i \in 1..Len(hits) |-> decode(hits[i].id)],
                        !.hits = Len(hits)]
    ELSE [NoLast EXCEPT !.op = "search", !.response = hits,
                        !.outcome = "ValueError"]

\* the order in which "for model in models" visits the collection
iteration(models) == Enumerate({get_model_ct(m) : m \in models})

\* the list of {"indexUid", "query"} handed to multi_search
sub_queries(q, cts) ==
    [i \in 1..Len(cts) |-> [indexUid |-> replace(cts[i], ".", "_"), query |-> q]]

\* passed is the collection the caller hands over as models; mafter is what
\* that collection holds when search has returned or raised
Search(q, passed) ==
    /\ Ready
    /\ LET given == passed # {}
           models == IF given THEN passed ELSE get_indexed_models
       IN  IF single_index(models)
           THEN LET model == CHOOSE m \in models : TRUE
                    name == _index_name(model)
                IN  \E hits \in Responses({name}) :
                      \* models.pop() takes the model out of the collection
                      /\ calls' = <<[Call("search", name) EXCEPT !.query = q]>>
                      /\ last' = [collect(hits) EXCEPT
                                    !.q = q, !.mset = passed,
                                    !.mafter = IF given THEN passed \ {model}
                                               ELSE passed]
           ELSE \E hits \in Responses({_index_name(m) : m \in models}) :
                  /\ calls' = <<[Call("multi_search", <<>>) EXCEPT
                                   !.subs = sub_queries(q, iteration(models))]>>
                  /\ last' = [collect(hits) EXCEPT
                                !.q = q, !.mset = passed, !.mafter = passed]
    /\ UNCHANGED <<backend, store>>

Next ==
    \/ \E opts \in ConnectionOptions : Construct(opts)
    \/ \E models \in Lists(get_indexed_models) : Clear(models)
    \/ \E obj \in Objs : Remove(obj)
    \/ \E model \in get_indexed_models : \E iterable \in Iterables(model) :
          Update(model, iterable)
    \/ \E q \in Queries : \E passed \in SUBSET get_indexed_models :
          Search(q, passed)

Spec == Init /\ [][Next]_vars

(* ------------------------------- claims -------------------------------- *)

IndexNamesOf(models) == {_index_name(models[i]) : i \in DOMAIN models}

\* C1: clear(models=[X]) deletes the index named for each listed model and
\* leaves every other index of the store as it was; clear() with no models
\* (None or empty) leaves the store without any index.
C1_ClearFrame ==
    [][(last'.op = "clear" /\ Clear(last'.mlist)) =>
          IF last'.mlist = <<>>
          THEN \A n \in IndexNames : ~store'[n].exists
          ELSE \A n \in IndexNames :
                 IF n \in IndexNamesOf(last'.mlist)
                 THEN ~store'[n].exists
                 ELSE store'[n] = store[n]]_vars

C1_Witness ==
    /\ last.op = "clear"
    /\ Len(last.mlist) = 1
    /\ \E n \in IndexNames \ IndexNamesOf(last.mlist) : store[n].docs # {}

\* the effective model set of the last search
Effective == IF last.mset # {} THEN last.mset ELSE get_indexed_models

\* C2: search with one effective model issues exactly one single-index query,
\* against that model's index with query q, and no fan-out call; with two or
\* more it issues exactly one multi_search call with one {indexUid, query}
\* sub-query per model, each with query q, and no single-index query.
C2_SearchRouting ==
    last.op = "search" =>
        /\ Len(calls) = 1
        /\ IF Cardinality(Effective) = 1
           THEN /\ calls[1].fn = "search"
                /\ \E m \in Effective : calls[1].index = _index_name(m)
                /\ calls[1].query = last.q
           ELSE /\ calls[1].fn = "multi_search"
                /\ Len(calls[1].subs) = Cardinality(Effective)
                /\ \A m \in Effective :
                      Cardinality({i \in 1..Len(calls[1].subs) :
                          calls[1].subs[i].indexUid = _index_name(m)}) = 1
                /\ \A i \in 1..Len(calls[1].subs) : calls[1].subs[i].query = last.q

C2_Witness ==
    /\ last.op = "search"
    /\ Cardinality(last.mset) = 2
    /\ calls[1].fn = "multi_search"
    /\ last.response # <<>>

Underscores(id) == Cardinality({i \in 1..Len(id) : id[i] = "_"})

\* C3: a returned hit whose id has fewer than three parts is dropped: search
\* returns normally, results holds one record per three-part hit and none
\* for the others, and hits is the number of records.
C3_MalformedHitDropped ==
    (last.op = "search" /\ \E i \in 1..Len(last.response) :
                               Underscores(last.response[i].id) < 2) =>
        /\ last.outcome = "ok"
        /\ last.hits = Len(last.results)
        /\ Len(last.results) =
              Cardinality({i \in 1..Len(last.response) :
                              Underscores(last.response[i].id) >= 2})

First(s, c) == CHOOSE k \in 1..Len(s) : s[k] = c /\ \A j \in 1..(k - 1) : s[j] # c

\* the decoding the specification describes: only the first two underscores
\* are boundaries
FirstTwo(id) ==
    LET i == First(id, "_")
        rest == SubSeq(id, i + 1, Len(id))
        j == First(rest, "_")
    IN  SearchResult(SubSeq(id, 1, i - 1), SubSeq(rest, 1, j - 1),
                     SubSeq(rest, j + 1, Len(rest)))

\* C4: for a response whose ids all have two or more underscores, search
\* returns one record per hit: app_label is the text before the first
\* underscore, model_name the text between the first and the second, and pk
\* the whole remainder.
C4_FirstTwoUnderscores ==
    (last.op = "search" /\ \A i \in 1..Len(last.response) :
                               Underscores(last.response[i].id) >= 2) =>
        /\ last.outcome = "ok"
        /\ Len(last.results) = Len(last.response)
        /\ \A i \in 1..Len(last.response) :
              last.results[i] = FirstTwo(last.response[i].id)

Clean(s) == \A i \in 1..Len(s) : s[i] \notin {".", "_"}

\* the prepared id is "n.k.p" with n, k and p free of dots and underscores
WellFormed(prepared) ==
    /\ Len(split(prepared, ".")) = 3
    /\ \A i \in 1..3 : Clean(split(prepared, ".")[i])

\* C5: a search over one model whose response holds documents that update
\* stored from prepared ids "n.k.p" (n, k, p free of dots and underscores)
\* returns one record per document, with app_label n, model_name k and pk p,
\* and hits equal to the number of documents.
C5_RoundTrip ==
    (/\ last.op = "search"
     /\ Cardinality(last.mset) = 1
     /\ \A i \in 1..Len(last.response) : WellFormed(last.response[i].prepared_id)) =>
        /\ last.outcome = "ok"
        /\ last.hits = Len(last.response)
        /\ Len(last.results) = Len(last.response)
        /\ \A i \in 1..Len(last.response) :
              /\ <<last.results[i].app_label, last.results[i].model_name,
                   last.results[i].pk>> = split(last.response[i].prepared_id, ".")
              /\ last.results[i].pk = last.response[i].django_id

C5_Witness ==
    /\ last.op = "search"
    /\ Cardinality(last.mset) = 1
    /\ Len(last.response) >= 2
    /\ \A i \in 1..Len(last.response) : WellFormed(last.response[i].prepared_id)
    /\ last.hits = Len(last.response)

\* the index of obj's model holds a document under the identifier of obj
Holds(st, obj) ==
    \E d \in st[_index_name(obj.model)].docs : d.id = get_identifier(obj)

C7_Construction ==
    last.op = "init" =>
        IF {"URL", "KEY"} \subseteq DOMAIN last.opts
        THEN /\ last.outcome = "ok"
             /\ backend.client = Client(last.opts["URL"], last.opts["KEY"])
        ELSE /\ last.outcome # "ok"
             /\ ~backend.client.made
             /\ calls = <<>>
             /\ \A n \in IndexNames : store[n] = NoIndex

C7_Witness ==
    /\ last.op = "init"
    /\ DOMAIN last.opts = {"URL"}
    /\ last.outcome = "KEY not set"

UpsertCalls == SelectSeq(calls, LAMBDA c : c.fn = "add_documents")

RECURSIVE Concat(_)
Concat(ss) == IF ss = <<>> THEN <<>> ELSE Head(ss).ids \o Concat(Tail(ss))

\* the ids update sends for its iterable, in order
SentIds == [i \in 1..Len(last.objs) |-> replace(last.objs[i].ident, ".", "_")]

C9_RemoveDeletesUpdated ==
    last.op = "remove" =>
        \A d \in store[_index_name(last.objs[1].model)].docs :
            d.prepared_id # last.objs[1].ident

\* C10: search leaves the caller's models collection as it was.
C10_ModelsUnchanged ==
    last.op = "search" => last.mafter = last.mset


====
